---- MODULE Spec2Model ----
(***************************************************************************)
(* FlickrImageDownloader.execute (src/nodes/flickr_image_downloader.py):   *)
(* the pagination loop that collects image URLs from the paged search      *)
(* endpoint, followed by the sequential download of every collected URL.   *)
(* The remote service is the environment: its replies are chosen           *)
(* nondeterministically (Spec, LiveSpec) or served from a fixed ordered    *)
(* catalogue (FixedSpec).                                                  *)
(***************************************************************************)
EXTENDS Integers, Sequences, FiniteSets, TLC

VARIABLES
    num_images,   \* self.num_images / num_requested_images
    urls,         \* the result list
    page,         \* the page counter
    pc,           \* position of execute
    request,      \* params of the search request in flight (per_page, page)
    response,     \* the search response of this iteration (status_code and json body)
    photo_idx,    \* position of the for loop in photo_list
    img_response, \* the last image response
    images,       \* the list comprehension of line 144, as built so far
    table,        \* the value execute returns
    error,        \* the exception execute raised
    n_search,     \* history: number of search requests issued
    n_download,   \* history: number of image requests issued
    discovered,   \* history: first occurrences of the URLs of validated photos, whole pages
    catalogue     \* FixedSpec: the ordered list of records the remote holds

vars == <<num_images, urls, page, pc, request, response, photo_idx, img_response,
          images, table, error, n_search, n_download, discovered, catalogue>>

(***************************************************************************)
(* Bounds of the model.                                                    *)
(***************************************************************************)
MaxTarget == 3        \* small values of num_images: 1 .. MaxTarget
BigTarget == 502      \* one value of num_images above max_per_page
MaxPageLen == 3       \* longest photo list the nondeterministic remote returns
MaxPage == 2          \* search requests per run are capped at this many
FixedBig == 501       \* FixedSpec: a target above max_per_page
MaxCatalogue == 4     \* FixedSpec: longest catalogue drawn from Photos
LivePageLen == 2      \* LiveSpec: longest photo list

(***************************************************************************)
(* JSON values. A value is <<tag, text>>: text is what str() prints, as a  *)
(* sequence of one-character strings.                                      *)
(***************************************************************************)
JInt(ds) == <<"int", ds>>
JStr(cs) == <<"str", cs>>
JNull == <<"null", <<>>>>

\* Python truthiness: `not v` is ~Truthy(v)
Truthy(v) ==
    CASE v[1] = "int" -> v[2] # <<"0">>
      [] v[1] = "str" -> v[2] # <<>>
      [] OTHER -> FALSE

\* Python `v == 0`
EqualsZero(v) == v[1] = "int" /\ v[2] = <<"0">>

\* what an f-string prints for v
Format(v) == IF v[1] = "null" THEN <<"N", "o", "n", "e">> ELSE v[2]

\* photo[key], read only where the key is present
Get(photo, key) == IF key \in DOMAIN photo THEN photo[key] ELSE JNull

Range(s) == {s[i] : i \in 1..Len(s)}

Min(a, b) == IF a < b THEN a ELSE b

max_per_page == 500

(***************************************************************************)
(* Lines 116-125: the metadata test. TRUE when the photo is skipped.       *)
(***************************************************************************)
IsInvalidPhoto(photo) ==
    \/ "farm" \notin DOMAIN photo
    \/ EqualsZero(Get(photo, "farm"))
    \/ "server" \notin DOMAIN photo
    \/ ~Truthy(Get(photo, "server"))
    \/ "id" \notin DOMAIN photo
    \/ ~Truthy(Get(photo, "id"))
    \/ "secret" \notin DOMAIN photo
    \/ ~Truthy(Get(photo, "secret"))

(***************************************************************************)
(* Line 129: the URL template.                                             *)
(***************************************************************************)
PhotoUrl(photo) ==
    <<"https://farm">> \o Format(photo["farm"]) \o <<".staticflickr.com/">>
        \o Format(photo["server"]) \o <<"/">> \o Format(photo["id"])
        \o <<"_">> \o Format(photo["secret"]) \o <<".jpg">>

\* mutant: the request asks for all that is missing, without the limit
PerPage_NoLimit(requested, collected) == requested - collected

(***************************************************************************)
(* Line 81-82: the per-request count.                                      *)
(***************************************************************************)
PerPage(requested, collected) == Min(requested - collected, max_per_page)

\* mutant: the loop test is off by one
LoopTest_OffByOne(collected, requested) == collected < requested - 1

(***************************************************************************)
(* Line 80: the loop test.                                                 *)
(***************************************************************************)
LoopTest(collected, requested) == collected < requested

\* mutant: > for >=
TargetReached_Strict(collected, requested) == collected > requested

(***************************************************************************)
(* Line 135: the test that leaves the for loop.                            *)
(***************************************************************************)
TargetReached(collected, requested) == collected >= requested

\* mutant: the duplicate test is dropped
IsNewUrl_Always(photo_url, list) == TRUE

(***************************************************************************)
(* Line 132: the duplicate test.                                           *)
(***************************************************************************)
IsNewUrl(photo_url, list) == photo_url \notin Range(list)

\* mutant: insert(0, ...) for append
AddUrl_Front(list, photo_url) == IF IsNewUrl(photo_url, list) THEN <<photo_url>> \o list ELSE list

(***************************************************************************)
(* Lines 132-133: append unless present.                                   *)
(***************************************************************************)
AddUrl(list, photo_url) == IF IsNewUrl(photo_url, list) THEN Append(list, photo_url) ELSE list

(***************************************************************************)
(* The photo records the nondeterministic remote draws its pages from.     *)
(***************************************************************************)
PhotoA == [farm |-> JInt(<<"1">>), server |-> JStr(<<"7">>), id |-> JStr(<<"a">>), secret |-> JStr(<<"s">>)]
PhotoC == [farm |-> JInt(<<"1">>), server |-> JStr(<<"7">>), id |-> JStr(<<"c">>), secret |-> JStr(<<"s">>)]
\* server missing
PhotoB == [farm |-> JInt(<<"1">>), id |-> JStr(<<"b">>), secret |-> JStr(<<"s">>)]
\* farm is the sentinel 0
PhotoZ == [farm |-> JInt(<<"0">>), server |-> JStr(<<"7">>), id |-> JStr(<<"z">>), secret |-> JStr(<<"s">>)]
\* farm is the empty string
PhotoE == [farm |-> JStr(<<>>), server |-> JStr(<<"7">>), id |-> JStr(<<"e">>), secret |-> JStr(<<"s">>)]

Photos == {PhotoA, PhotoC, PhotoB, PhotoZ, PhotoE}

RECURSIVE SeqsUpTo(_, _)
SeqsUpTo(S, n) ==
    IF n = 0 THEN {<<>>}
    ELSE LET shorter == SeqsUpTo(S, n - 1)
         IN shorter \cup {Append(s, x) : s \in {t \in shorter : Len(t) = n - 1}, x \in S}

PhotoLists(n) == SeqsUpTo(Photos, n)

\* a search response with a photo list
OkResponse(photo_list) ==
    [status_code |-> 200, data |-> [photos |-> [photo |-> photo_list], stat |-> <<"ok">>]]

\* status 200 with an unexpected body: no "photos", or "photos" without "photo"
MalformedResponses ==
    { [status_code |-> 200, data |-> [stat |-> <<"fail">>]],
      [status_code |-> 200, data |-> [photos |-> [total |-> 0], stat |-> <<"ok">>]] }

ErrorResponse == [status_code |-> 500, data |-> [stat |-> <<"fail">>]]

NoResponse == [status_code |-> 0, data |-> [stat |-> <<"none">>]]

NoRequest == [per_page |-> 0, page |-> 0]

SearchResponses(n) ==
    {OkResponse(l) : l \in PhotoLists(n)} \cup MalformedResponses \cup {ErrorResponse}

(***************************************************************************)
(* History: the URLs of the photos of photo_list that pass the metadata    *)
(* test, in list order, each once and none that seq already holds,         *)
(* appended to seq.                                                        *)
(***************************************************************************)
AddFirsts(seq, photos) ==
    LET passes(i) == ~IsInvalidPhoto(photos[i])
        first(i) ==
            /\ passes(i)
            /\ \A j \in 1..Len(seq) : seq[j] # PhotoUrl(photos[i])
            /\ \A j \in 1..(i - 1) : passes(j) => PhotoUrl(photos[j]) # PhotoUrl(photos[i])
        firsts == SelectSeq([i \in 1..Len(photos) |-> i], first)
    IN seq \o [k \in 1..Len(firsts) |-> PhotoUrl(photos[firsts[k]])]

Take(seq, n) == SubSeq(seq, 1, Min(n, Len(seq)))

(***************************************************************************)
(* FixedSpec: the remote holds a fixed ordered list of records and serves  *)
(* (page p, per_page k) as the records at positions (p-1)*k+1 .. p*k.      *)
(***************************************************************************)
Digit(d) == <<"0", "1", "2", "3", "4", "5", "6", "7", "8", "9">>[d + 1]

RECURSIVE Digits(_)
Digits(n) == IF n < 10 THEN <<Digit(n)>> ELSE Append(Digits(n \div 10), Digit(n % 10))

\* the i-th of a run of valid, pairwise distinct records
CatalogueRecord(i) ==
    [farm |-> JInt(<<"6">>), server |-> JStr(<<"7">>), id |-> JStr(Digits(i)), secret |-> JStr(<<"s">>)]

NumberedCatalogue(size) == [i \in 1..size |-> CatalogueRecord(i)]

CataloguePage(p, k, records) ==
    LET first == (p - 1) * k + 1
        last == Min(p * k, Len(records))
    IN IF last < first THEN <<>> ELSE SubSeq(records, first, last)

(***************************************************************************)
(* The image endpoint: a status and, on 200, bytes PIL can or cannot read. *)
(***************************************************************************)
ImageResponses(url) ==
    { [status_code |-> 200, content |-> <<"jpg", url>>],
      [status_code |-> 200, content |-> <<"garbage", url>>],
      [status_code |-> 404, content |-> <<"garbage", url>>] }

NoImageResponse == [status_code |-> 0, content |-> <<"garbage", <<>>>>]

\* lines 152-156: Image.open, save as PNG, Image.open of the buffer
PngImage(content) == <<"PNG", content[2]>>

NoTable == [returned |-> FALSE, rows |-> <<>>]

ApiError == "RuntimeError: Failed to fetch data from Flickr API"
FormatError == "ValueError: Unexpected API response format."
DownloadError == "ValueError: Failed to fetch image from URL"
DecodeError == "UnidentifiedImageError"

photo_list == response.data.photos.photo

WellFormed(data) == "photos" \in DOMAIN data /\ "photo" \in DOMAIN data.photos

\* page += 1 (and the count of requests). Python integers do not overflow. Under
\* mode "lumped" (LiveSpec) the values from MaxPage on are one abstract value: no
\* branch of execute reads page, and the lumped remote does not read it either.
Succ(n, mode) == IF mode = "lumped" /\ n >= MaxPage THEN n ELSE n + 1

(***************************************************************************)
(* Init: lines 75-78, before the first loop test.                          *)
(***************************************************************************)
InitWith(targets, catalogues) ==
    /\ num_images \in targets
    /\ catalogue \in catalogues
    /\ urls = <<>>
    /\ page = 1
    /\ pc = "loop"
    /\ request = NoRequest
    /\ response = NoResponse
    /\ photo_idx = 0
    /\ img_response = NoImageResponse
    /\ images = <<>>
    /\ table = NoTable
    /\ error = "none"
    /\ n_search = 0
    /\ n_download = 0
    /\ discovered = <<>>

Targets == (1..MaxTarget) \cup {BigTarget}

Init == InitWith(Targets, {<<>>})

(***************************************************************************)
(* Lines 80-94: the loop test is true; build params and send the request.  *)
(* response and photo_idx of the iteration before are read no more; they   *)
(* are dropped where the iteration ends, so that states differing only in  *)
(* these dead values are one state.                                        *)
(***************************************************************************)
SendSearchRequest(mode) ==
    /\ pc = "loop"
    /\ LoopTest(Len(urls), num_images)
    /\ mode = "capped" => page <= MaxPage
    /\ request' = [per_page |-> PerPage(num_images, Len(urls)), page |-> page]
    /\ n_search' = Succ(n_search, mode)
    /\ pc' = "search"
    /\ response' = NoResponse /\ photo_idx' = 0
    /\ UNCHANGED <<num_images, urls, page, img_response, images,
                   table, error, n_download, discovered, catalogue>>

(***************************************************************************)
(* Line 80: the loop test is false; go on to line 140.                     *)
(***************************************************************************)
LeaveLoop ==
    /\ pc = "loop"
    /\ ~LoopTest(Len(urls), num_images)
    /\ pc' = "download"
    /\ response' = NoResponse /\ photo_idx' = 0
    /\ UNCHANGED <<num_images, urls, page, request, img_response,
                   images, table, error, n_search, n_download, discovered,
                   catalogue>>

(***************************************************************************)
(* Line 94: requests.get returns. The remote answers anything.             *)
(***************************************************************************)
Receive(r) ==
    /\ pc = "search"
    /\ response' = r
    /\ discovered' = IF r.status_code = 200 /\ WellFormed(r.data)
                     THEN AddFirsts(discovered, r.data.photos.photo)
                     ELSE discovered
    /\ pc' = "status"
    /\ UNCHANGED <<num_images, urls, page, request, photo_idx, img_response, images,
                   table, error, n_search, n_download, catalogue>>

AnyResponses == SearchResponses(MaxPageLen)

LiveResponses == SearchResponses(LivePageLen)

SearchReply == \E r \in AnyResponses : Receive(r)

LiveSearchReply == \E r \in LiveResponses : Receive(r)

\* the remote of FixedSpec
CatalogueReply == Receive(OkResponse(CataloguePage(request.page, request.per_page, catalogue)))

\* mutant: the status is logged and the loop is left, as for an empty page
RaiseApiError_Break ==
    /\ pc = "status"
    /\ response.status_code # 200
    /\ pc' = "download"
    /\ response' = NoResponse /\ photo_idx' = 0
    /\ UNCHANGED <<num_images, urls, page, request, img_response, images, table, error,
                   n_search, n_download, discovered, catalogue>>

(***************************************************************************)
(* Lines 96-99.                                                            *)
(***************************************************************************)
RaiseApiError ==
    /\ pc = "status"
    /\ response.status_code # 200
    /\ error' = ApiError
    /\ pc' = "failed"
    /\ UNCHANGED <<num_images, urls, page, request, response, photo_idx, img_response,
                   images, table, n_search, n_download, discovered, catalogue>>

(***************************************************************************)
(* Lines 103-106.                                                          *)
(***************************************************************************)
RaiseFormatError ==
    /\ pc = "status"
    /\ response.status_code = 200
    /\ ~WellFormed(response.data)
    /\ error' = FormatError
    /\ pc' = "failed"
    /\ UNCHANGED <<num_images, urls, page, request, response, photo_idx, img_response,
                   images, table, n_search, n_download, discovered, catalogue>>

\* mutant: continue for break; the request is repeated with the same page
StopEarly_Continue ==
    /\ pc = "status"
    /\ response.status_code = 200
    /\ WellFormed(response.data)
    /\ photo_list = <<>>
    /\ pc' = "loop"
    /\ UNCHANGED <<num_images, urls, page, request, response, photo_idx, img_response,
                   images, table, error, n_search, n_download, discovered,
                   catalogue>>

(***************************************************************************)
(* Lines 108-112: an empty photo list leaves the while loop.               *)
(***************************************************************************)
StopEarly ==
    /\ pc = "status"
    /\ response.status_code = 200
    /\ WellFormed(response.data)
    /\ photo_list = <<>>
    /\ pc' = "download"
    /\ response' = NoResponse /\ photo_idx' = 0
    /\ UNCHANGED <<num_images, urls, page, request, img_response,
                   images, table, error, n_search, n_download, discovered,
                   catalogue>>

(***************************************************************************)
(* Lines 108-114: a non-empty photo list enters the for loop.              *)
(***************************************************************************)
EnterFor ==
    /\ pc = "status"
    /\ response.status_code = 200
    /\ WellFormed(response.data)
    /\ photo_list # <<>>
    /\ photo_idx' = 1
    /\ pc' = "for"
    /\ UNCHANGED <<num_images, urls, page, request, response, img_response, images,
                   table, error, n_search, n_download, discovered, catalogue>>

(***************************************************************************)
(* Lines 114-127: the photo fails the metadata test and is skipped.        *)
(***************************************************************************)
SkipPhoto ==
    /\ pc = "for"
    /\ photo_idx <= Len(photo_list)
    /\ IsInvalidPhoto(photo_list[photo_idx])
    /\ photo_idx' = photo_idx + 1
    /\ UNCHANGED <<num_images, urls, page, pc, request, response, img_response, images,
                   table, error, n_search, n_download, discovered, catalogue>>

(***************************************************************************)
(* Lines 129-138: the photo passes; its URL is appended unless present,    *)
(* and the for loop is left when the target is reached (then page += 1).   *)
(***************************************************************************)
TakePhoto(mode) ==
    /\ pc = "for"
    /\ photo_idx <= Len(photo_list)
    /\ ~IsInvalidPhoto(photo_list[photo_idx])
    /\ LET photo == photo_list[photo_idx]
           photo_url == PhotoUrl(photo)
           appended == AddUrl(urls, photo_url)
       IN /\ urls' = appended
          /\ IF TargetReached(Len(appended), num_images)
             THEN /\ page' = Succ(page, mode)
                  /\ pc' = "loop"
                  /\ photo_idx' = photo_idx
             ELSE /\ photo_idx' = photo_idx + 1
                  /\ UNCHANGED <<page, pc>>
    /\ UNCHANGED <<num_images, request, response, img_response, images, table, error,
                   n_search, n_download, discovered, catalogue>>

(***************************************************************************)
(* Lines 114, 138: photo_list is used up; page += 1, back to the test.     *)
(***************************************************************************)
EndFor(mode) ==
    /\ pc = "for"
    /\ photo_idx > Len(photo_list)
    /\ page' = Succ(page, mode)
    /\ pc' = "loop"
    /\ UNCHANGED <<num_images, urls, request, response, photo_idx, img_response, images,
                   table, error, n_search, n_download, discovered, catalogue>>

(***************************************************************************)
(* Lines 144, 150: the next URL of the list comprehension is requested.    *)
(***************************************************************************)
SendImageRequest ==
    /\ pc = "download"
    /\ Len(images) < Len(urls)
    /\ n_download' = n_download + 1
    /\ pc' = "fetch"
    /\ UNCHANGED <<num_images, urls, page, request, response, photo_idx, img_response,
                   images, table, error, n_search, discovered, catalogue>>

(***************************************************************************)
(* Line 150: requests.get returns.                                         *)
(***************************************************************************)
ImageReply ==
    /\ pc = "fetch"
    /\ \E r \in ImageResponses(urls[Len(images) + 1]) : img_response' = r
    /\ pc' = "image"
    /\ UNCHANGED <<num_images, urls, page, request, response, photo_idx, images, table,
                   error, n_search, n_download, discovered, catalogue>>

(***************************************************************************)
(* Lines 151-156: status 200 and readable bytes; the PNG joins the list.   *)
(***************************************************************************)
StoreImage ==
    /\ pc = "image"
    /\ img_response.status_code = 200
    /\ img_response.content[1] # "garbage"
    /\ images' = Append(images, PngImage(img_response.content))
    /\ pc' = "download"
    /\ UNCHANGED <<num_images, urls, page, request, response, photo_idx, img_response,
                   table, error, n_search, n_download, discovered, catalogue>>

(***************************************************************************)
(* Line 152: status 200, but Image.open cannot read the bytes.             *)
(***************************************************************************)
RaiseDecodeError ==
    /\ pc = "image"
    /\ img_response.status_code = 200
    /\ img_response.content[1] = "garbage"
    /\ error' = DecodeError
    /\ pc' = "failed"
    /\ UNCHANGED <<num_images, urls, page, request, response, photo_idx, img_response,
                   images, table, n_search, n_download, discovered, catalogue>>

\* mutant: the failing URL is logged and left out as None
RaiseDownloadError_Skip ==
    /\ pc = "image"
    /\ img_response.status_code # 200
    /\ images' = Append(images, <<"None", img_response.content[2]>>)
    /\ pc' = "download"
    /\ UNCHANGED <<num_images, urls, page, request, response, photo_idx, img_response,
                   table, error, n_search, n_download, discovered, catalogue>>

(***************************************************************************)
(* Lines 157-158.                                                          *)
(***************************************************************************)
RaiseDownloadError ==
    /\ pc = "image"
    /\ img_response.status_code # 200
    /\ error' = DownloadError
    /\ pc' = "failed"
    /\ UNCHANGED <<num_images, urls, page, request, response, photo_idx, img_response,
                   images, table, n_search, n_download, discovered, catalogue>>

(***************************************************************************)
(* Lines 143-147: every URL is downloaded; the table is returned.          *)
(***************************************************************************)
ReturnTable ==
    /\ pc = "download"
    /\ Len(images) = Len(urls)
    /\ table' = [returned |-> TRUE, rows |-> images]
    /\ pc' = "done"
    /\ UNCHANGED <<num_images, urls, page, request, response, photo_idx, img_response,
                   images, error, n_search, n_download, discovered, catalogue>>

Handlers(mode) ==
    \/ SendSearchRequest(mode)
    \/ LeaveLoop
    \/ RaiseApiError
    \/ RaiseFormatError
    \/ StopEarly
    \/ EnterFor
    \/ SkipPhoto
    \/ TakePhoto(mode)
    \/ EndFor(mode)
    \/ SendImageRequest
    \/ ImageReply
    \/ StoreImage
    \/ RaiseDecodeError
    \/ RaiseDownloadError
    \/ ReturnTable

Next == SearchReply \/ Handlers("capped")

Spec == Init /\ [][Next]_vars

(***************************************************************************)
(* FixedSpec: the pagination loop against a remote that serves a fixed     *)
(* catalogue and always answers with success.                              *)
(***************************************************************************)
FixedTargets == (1..MaxTarget) \cup {FixedBig}

\* every list of at most MaxCatalogue of the Photos, and the numbered lists of
\* FixedBig - 1, FixedBig and FixedBig + 1 records
FixedCatalogues ==
    SeqsUpTo(Photos, MaxCatalogue) \cup {NumberedCatalogue(FixedBig + d) : d \in {-1, 0, 1}}

FixedInit == InitWith(FixedTargets, FixedCatalogues)

FixedNext ==
    \/ CatalogueReply
    \/ SendSearchRequest("free")
    \/ LeaveLoop
    \/ StopEarly
    \/ EnterFor
    \/ SkipPhoto
    \/ TakePhoto("free")
    \/ EndFor("free")

FixedSpec == FixedInit /\ [][FixedNext]_vars

(***************************************************************************)
(* LiveSpec: whole runs against the nondeterministic remote. execute is    *)
(* one sequential thread and every requests.get is taken to return, so a   *)
(* run that can take a step takes one.                                     *)
(***************************************************************************)
LiveInit == InitWith(1..MaxTarget, {<<>>})

LiveNext == LiveSearchReply \/ Handlers("lumped")

LiveSpec == LiveInit /\ [][LiveNext]_vars /\ WF_vars(LiveNext)

(***************************************************************************)
(* Properties.                                                             *)
(***************************************************************************)
LoopEnded == pc \in {"download", "fetch", "image", "done"}

Ended == pc \in {"done", "failed"}

\* a step is taken while the for loop stands at a photo
AtPhoto == pc = "for" /\ photo_idx <= Len(photo_list)

\* the search response in hand is a success with an empty photo list
EmptyPageInHand ==
    /\ pc = "status"
    /\ response.status_code = 200
    /\ WellFormed(response.data)
    /\ photo_list = <<>>

\* an exception ends execute: no step follows it
RaiseIsFinal == [][pc = "failed" => FALSE]_vars

\* the validity rule of the data model: all four fields present and neither
\* empty nor zero
RuleValid(photo) ==
    \A key \in {"farm", "server", "id", "secret"} :
        key \in DOMAIN photo /\ Truthy(Get(photo, key))

\* the distinct valid records a list holds
DistinctValid(records) == {records[i] : i \in {j \in 1..Len(records) : RuleValid(records[j])}}

\* C1: against a remote that serves a fixed ordered list page by page as asked
\* and always with success, a list holding at least num_images distinct valid
\* records makes the pagination loop end with exactly num_images URLs.
C1_ExactlyTarget ==
    (pc = "download" /\ Cardinality(DistinctValid(catalogue)) >= num_images)
        => Len(urls) = num_images

\* the list holds an invalid record and a repeated one, and the target was
\* reached with the third request
C1_Witness ==
    /\ pc = "download"
    /\ num_images = 2
    /\ catalogue = <<PhotoA, PhotoB, PhotoA, PhotoC>>
    /\ Len(urls) = 2
    /\ n_search >= 3

\* C2: the result list never holds more than num_images URLs, whatever the
\* remote returns.
C2_AtMostTarget == Len(urls) <= num_images

\* the page held more photos than asked for, and the for loop was left at the
\* target with photos still unread
C2_Witness ==
    /\ pc = "loop"
    /\ response.status_code = 200
    /\ WellFormed(response.data)
    /\ Len(photo_list) > request.per_page
    /\ photo_idx < Len(photo_list)
    /\ Len(urls) = num_images

\* C3: every search request asks for min(num_images - len(urls), 500) photos,
\* which is at least 1 and at most 500.
C3_PageSize ==
    pc = "search" =>
        /\ request.per_page = Min(num_images - Len(urls), 500)
        /\ request.per_page >= 1
        /\ request.per_page <= 500

C3_Witness ==
    /\ pc = "search"
    /\ Len(urls) > 0
    /\ num_images - Len(urls) > 500
    /\ request.per_page = 500

\* C4: the result list holds no URL twice. The URL of a photo that passes the
\* metadata test is in the list after the step, the list only grows at its end,
\* and a photo whose URL the list holds leaves the list as it is: so of two
\* records with the same four fields only the first adds a URL.
C4_NoDuplicates ==
    /\ [](\A i, j \in 1..Len(urls) : urls[i] = urls[j] => i = j)
    /\ [][(AtPhoto /\ ~IsInvalidPhoto(photo_list[photo_idx]))
            => PhotoUrl(photo_list[photo_idx]) \in Range(urls')]_vars
    /\ [][Len(urls') >= Len(urls) /\ SubSeq(urls', 1, Len(urls)) = urls]_vars
    /\ [][(AtPhoto /\ ~IsInvalidPhoto(photo_list[photo_idx])
                   /\ PhotoUrl(photo_list[photo_idx]) \in Range(urls))
            => urls' = urls]_vars

\* the for loop of page 2 stands at a record whose URL page 1 added
C4_Witness ==
    /\ AtPhoto
    /\ request.page = 2
    /\ ~IsInvalidPhoto(photo_list[photo_idx])
    /\ PhotoUrl(photo_list[photo_idx]) \in Range(urls)
    /\ \A i \in 1..(photo_idx - 1) : photo_list[i] # photo_list[photo_idx]

\* C5: a record that fails the validity rule adds no URL to the result list.
C5_OnlyValidRecords ==
    [][(AtPhoto /\ ~RuleValid(photo_list[photo_idx])) => urls' = urls]_vars

\* C6: a success response with an empty photo list ends the loop without an
\* error and with the list as collected so far, and once the loop has ended no
\* further search request is issued and the list does not change.
C6_EmptyPageStops ==
    /\ [][EmptyPageInHand =>
            /\ pc' = "download"
            /\ urls' = urls
            /\ error' = "none"
            /\ n_search' = n_search]_vars
    /\ [][LoopEnded =>
            /\ pc' \in {"download", "fetch", "image", "done", "failed"}
            /\ urls' = urls
            /\ n_search' = n_search]_vars

\* page 2 was empty: the run ended with the URLs of page 1, fewer than asked for
C6_Witness ==
    /\ pc = "done"
    /\ n_search = 2
    /\ Len(urls) > 0
    /\ Len(urls) < num_images
    /\ error = "none"
    /\ Len(table.rows) = Len(urls)

\* C7: a search response with a status other than 200 raises at once; after it
\* no request of either kind is issued, no image was requested, and no table is
\* returned.
C7_ApiErrorAborts ==
    /\ [][(pc = "status" /\ response.status_code # 200) =>
            /\ pc' = "failed"
            /\ error' = ApiError
            /\ n_search' = n_search]_vars
    /\ [](error = ApiError =>
            /\ pc = "failed"
            /\ n_download = 0
            /\ images = <<>>
            /\ ~table.returned)
    /\ RaiseIsFinal

\* the failing response came on page 2, after URLs were collected
C7_Witness ==
    /\ error = ApiError
    /\ n_search = 2
    /\ Len(urls) > 0

\* C8: an image response with a status other than 200 raises and no table is
\* returned; a returned table has one row per URL of the result list, in list
\* order, each the PNG of that URL's download.
C8_AllOrNothing ==
    /\ [][(pc = "image" /\ img_response.status_code # 200) =>
            /\ pc' = "failed"
            /\ error' = DownloadError]_vars
    /\ [](error = DownloadError => pc = "failed" /\ ~table.returned)
    /\ [](table.returned =>
            /\ error = "none"
            /\ Len(table.rows) = Len(urls)
            /\ n_download = Len(urls)
            /\ \A i \in 1..Len(urls) : table.rows[i] = <<"PNG", urls[i]>>)
    /\ [](pc = "done" => table.returned)
    /\ RaiseIsFinal

\* the download failed after earlier ones had succeeded
C8_Witness ==
    /\ error = DownloadError
    /\ Len(images) >= 1
    /\ Len(images) < Len(urls)

\* C9, as stated: every run ends.
C9_AlwaysEnds == <>Ended

\* the response in hand is a non-empty photo list of which every photo fails
\* the metadata test or prints a URL the result list holds
BarrenPageInHand ==
    /\ pc = "status"
    /\ response.status_code = 200
    /\ WellFormed(response.data)
    /\ photo_list # <<>>
    /\ \A i \in 1..Len(photo_list) :
        \/ IsInvalidPhoto(photo_list[i])
        \/ PhotoUrl(photo_list[i]) \in Range(urls)

\* C9, amended: a run ends unless the remote answers again and again with a
\* non-empty photo list that adds no URL.
C9_EndsUnlessBarren == <>Ended \/ []<>BarrenPageInHand

\* a run that ended: its pages before the last were non-empty and added no
\* URL, the last one was empty
C9_Witness ==
    /\ pc = "done"
    /\ n_search >= MaxPage
    /\ page >= MaxPage
    /\ urls = <<>>

====
